---- MODULE Spec2Model ----
(***************************************************************************)
(* goodpdf: the staged transform-and-reassembly pipeline.                  *)
(*                                                                         *)
(* The repository holds two implementations of the same pipeline:          *)
(*   src/app.js            (loaded by src/index.js; promise based)         *)
(*   src/unnamed/part_000  (synchronous fs calls, no compensating cleanup) *)
(* The variable impl says which of the two a behaviour runs.               *)
(*                                                                         *)
(* Abstractions:                                                           *)
(*  - a file name is a sequence of one-character strings;                  *)
(*  - pixel contents are not modelled here, a staged image is its name;    *)
(*  - lengths on the page are exact rationals: an x coordinate is a        *)
(*    numerator over the denominator `columns`, a y coordinate a numerator *)
(*    over the denominator 10 * rows (JavaScript computes them in floating *)
(*    point);                                                              *)
(*  - the rasterizer, sharp and pdfkit are external: each call succeeds or *)
(*    fails, chosen nondeterministically.                                  *)
(***************************************************************************)
EXTENDS Integers, Sequences, FiniteSets, TLC

(* ------------------------------ bounds --------------------------------- *)
\* requests (pipeline runs) made to one server process
MaxRuns == 2
\* pages of an uploaded document in the pipeline specification
MaxPages == 2
\* final images handed to the assembler in the assembler specification
MaxImages == 9
\* failures that the code recovers from locally (skipped unlink, swallowed
\* rm, stretch fallback) injected in one behaviour
MaxFaults == 1
\* length of a raw layout parameter in the layout specification
MaxParamLen == 2

(* -------------------------- program constants -------------------------- *)
A4_WIDTH == 595
A4_HEIGHT == 842
DEFAULT_COLUMNS == 2
DEFAULT_ROWS == 4
MAX_COLUMNS == 10
MAX_ROWS == 20
padding == 4

Impls == {"app.js", "part_000"}
Runs == 1..MaxRuns

\* the four staging directories
TEMP_UPLOAD_FOLDER == "upload"
STAGE_1_FOLDER == "stage_1"
STAGE_2_FOLDER == "stage_2"
FINAL_FOLDER == "MainFinalOutput"
Folders == {TEMP_UPLOAD_FOLDER, STAGE_1_FOLDER, STAGE_2_FOLDER, FINAL_FOLDER}

(* ------------------------------ strings -------------------------------- *)
\* the characters used, in ascending UTF-16 code unit order
Alphabet ==
  << " ", "-", ".", "0", "1", "2", "3", "4", "5", "6", "7", "8", "9",
     "G", "N", "P", "a", "b", "e", "g", "j", "n", "p", "t", "w", "x" >>

\* order-isomorphic to the UTF-16 code unit of c
Code(c) == CHOOSE i \in 1..Len(Alphabet) : Alphabet[i] = c

toLowerCase(s) ==
  [i \in 1..Len(s) |->
     CASE s[i] = "G" -> "g"
       [] s[i] = "N" -> "n"
       [] s[i] = "P" -> "p"
       [] OTHER -> s[i]]

Digits == <<"0", "1", "2", "3", "4", "5", "6", "7", "8", "9">>
IsDigit(c) == \E d \in 1..10 : Digits[d] = c
DigitValue(c) == (CHOOSE d \in 1..10 : Digits[d] = c) - 1

\* Number.prototype.toString for 0..99
toString(n) ==
  IF n < 10 THEN <<Digits[n + 1]>>
  ELSE <<Digits[(n \div 10) + 1], Digits[(n % 10) + 1]>>

RECURSIVE SeqsUpTo(_, _)
\* all sequences over S of length at most n
SeqsUpTo(S, n) ==
  IF n = 0 THEN {<<>>}
  ELSE LET shorter == SeqsUpTo(S, n - 1)
       IN shorter \cup {Append(s, c) : s \in shorter, c \in S}

(* --------------------------- layout validation ------------------------- *)
NaN == [nan |-> TRUE, val |-> 0]

RECURSIVE SkipWhite(_)
SkipWhite(s) ==
  IF s # <<>> /\ Head(s) = " " THEN SkipWhite(Tail(s)) ELSE s

RECURSIVE DigitPrefixValue(_, _)
\* the value of the longest prefix of digits of s, acc the value so far
DigitPrefixValue(s, acc) ==
  IF s # <<>> /\ IsDigit(Head(s))
  THEN DigitPrefixValue(Tail(s), 10 * acc + DigitValue(Head(s)))
  ELSE acc

\* parseInt(string, 10): leading white space is skipped, an optional sign,
\* then the longest run of digits; anything after it is ignored; NaN when
\* there is no digit
parseInt(string) ==
  LET t == SkipWhite(string)
      neg == t # <<>> /\ Head(t) = "-"
      u == IF neg THEN Tail(t) ELSE t
  IN IF u = <<>> \/ ~IsDigit(Head(u)) THEN NaN
     ELSE [nan |-> FALSE,
           val |-> IF neg THEN 0 - DigitPrefixValue(u, 0)
                   ELSE DigitPrefixValue(u, 0)]

validateInteger(value, min, max, defaultValue) ==
  LET parsed == parseInt(value)
  IN IF parsed.nan \/ parsed.val < min \/ parsed.val > max
     THEN defaultValue
     ELSE parsed.val

\* part_000, main: the default stays unless the parsed value is an integer
\* in range
mainLayout(value, max, defaultValue) ==
  LET parsed == parseInt(value)
  IN IF ~parsed.nan /\ parsed.val >= 1 /\ parsed.val <= max
     THEN parsed.val
     ELSE defaultValue

(* ------------------------------ file names ----------------------------- *)
IMAGE_EXTENSIONS ==
  { <<".", "p", "n", "g">>, <<".", "j", "p", "g">>,
    <<".", "j", "p", "e", "g">>, <<".", "w", "e", "b", "p">> }

\* path.extname: from the last "." of the name to its end; empty when there
\* is none or when the only "." is the first character
extname(file) ==
  LET dots == {i \in 1..Len(file) : file[i] = "."}
  IN IF dots = {} THEN <<>>
     ELSE LET last == CHOOSE i \in dots : \A j \in dots : j <= i
          IN IF last = 1 THEN <<>> ELSE SubSeq(file, last, Len(file))

IsImageFile(file) == toLowerCase(extname(file)) \in IMAGE_EXTENSIONS

\* part_000: /\.(png|jpg|jpeg|webp)$/i
IsImageFileRegex(file) ==
  \E e \in IMAGE_EXTENSIONS :
     /\ Len(file) >= Len(e)
     /\ toLowerCase(SubSeq(file, Len(file) - Len(e) + 1, Len(file))) = e

filterImageFiles(files) == SelectSeq(files, IsImageFile)

filterRegex(files) == SelectSeq(files, IsImageFileRegex)

RECURSIVE Less(_, _)
\* a < b as JavaScript compares strings: by code units, a proper prefix first
Less(a, b) ==
  IF b = <<>> THEN FALSE
  ELSE IF a = <<>> THEN TRUE
  ELSE IF Head(a) # Head(b) THEN Code(Head(a)) < Code(Head(b))
  ELSE Less(Tail(a), Tail(b))

RECURSIVE Insert(_, _)
Insert(sorted, f) ==
  IF sorted = <<>> THEN <<f>>
  ELSE IF Less(f, Head(sorted)) THEN <<f>> \o sorted
  ELSE <<Head(sorted)>> \o Insert(Tail(sorted), f)

sort_asListed(files) == files

RECURSIVE sort(_)
\* Array.prototype.sort without a comparator
sort(files) ==
  IF files = <<>> THEN <<>>
  ELSE Insert(sort(Tail(files)), Head(files))

RECURSIVE Ascending(_)
\* the elements of a set of names in ascending order
Ascending(S) ==
  IF S = {} THEN <<>>
  ELSE LET m == CHOOSE x \in S : \A y \in S : y = x \/ Less(x, y)
       IN <<m>> \o Ascending(S \ {m})

Reverse(s) == [i \in 1..Len(s) |-> s[Len(s) + 1 - i]]

\* fs.readdir: the entries of a directory, in an order the file system
\* chooses; two orders stand for all of them
readdir(S) == {Ascending(S), Reverse(Ascending(S))}

\* the image the rasterizer writes for page i of the document named tag
PageName(tag, i) == <<tag>> \o toString(i) \o <<".", "p", "n", "g">>

(* ------------------------------- state --------------------------------- *)
VARIABLES
  impl,    \* which implementation runs: "app.js" or "part_000"
  dirs,    \* staging directory -> [exists, files]
  out,     \* the file at FINAL_PDF_PATH
  proc,    \* request -> the locals of its handler and pipeline call
  faults   \* locally recovered failures injected so far

vars == <<impl, dirs, out, proc, faults>>

\* the gray value of a uniformly gray image, by file name
NoImages == [n \in {} |-> 0]

Absent == [exists |-> FALSE, files |-> {}, gray |-> NoImages]

\* the images of g that are in the set kept
keep(g, kept) == [n \in DOMAIN g \cap kept |-> g[n]]

\* g after a file named n of gray value v was written
write(g, n, v) == [m \in DOMAIN g \cup {n} |-> IF m = n THEN v ELSE g[m]]

EmptyDoc == [pages |-> 0, tiles |-> <<>>]

NoFile == [exists |-> FALSE, run |-> 0, complete |-> FALSE, doc |-> EmptyDoc]

NoPdf == [tag |-> "a", numPages |-> 0, gray |-> 0]

Tags == {"a"}

\* an uploaded document: the name the rasterizer derives page names from
\* (uploads share one name here; "b" names what an earlier process left),
\* its number of pages, and the gray value of its (uniformly gray) pages
Pdfs == [tag : Tags, numPages : 0..MaxPages, gray : {0}]

Pages(pdf) == {PageName(pdf.tag, i) : i \in 1..pdf.numPages}

IdleProc ==
  [ pc |-> "idle", pdf |-> NoPdf,
    rowParam |-> <<>>, columnParam |-> <<>>, columns |-> 0, rows |-> 0,
    files |-> <<>>,
    imageFiles |-> <<>>, imageCount |-> 0, currentX |-> 0, currentY |-> 0,
    doc |-> EmptyDoc, stream |-> "none",
    error |-> <<>>, response |-> "none", sent |-> NoFile,
    \* history, not read by the program: the message of the failing
    \* operation, the phase it failed in, the folders whose removal the
    \* pipeline attempted,
    \* the number of image files the assembler found (-1 before it looked),
    \* and the folders whose removal failed and was swallowed
    cause |-> <<>>, failedIn |-> "none", removals |-> {},
    found |-> 0 - 1, rmFailed |-> {} ]

(* ---------------------------- staging store ---------------------------- *)
\* app.js ensureFolderExists, part_000 ensureFolder
ensureFolderExists(d, folder) == [d EXCEPT ![folder].exists = TRUE]

\* app.js cleanFolder: every entry is unlinked; an unlink that fails is
\* logged and skipped, so any subset of the entries may survive; a missing
\* folder is a no-op.  The outcomes: the store after, and whether a failure
\* was swallowed.
cleanFolder(d, folder) ==
  IF ~d[folder].exists THEN {[dirs |-> d, swallowed |-> 0, threw |-> FALSE]}
  ELSE {[dirs |-> [d EXCEPT ![folder].files = kept,
                           ![folder].gray = keep(@, kept)],
         swallowed |-> IF kept = {} THEN 0 ELSE 1,
         threw |-> FALSE] : kept \in SUBSET d[folder].files}

\* part_000 cleanFolder: unlinkSync throws at the first entry it cannot
\* delete; that entry and the ones after it in the listing survive
cleanFolderSync(d, folder) ==
  IF ~d[folder].exists THEN {[dirs |-> d, swallowed |-> 0, threw |-> FALSE]}
  ELSE {[dirs |-> [d EXCEPT ![folder].files = kept,
                           ![folder].gray = keep(@, kept)],
         swallowed |-> 0,
         threw |-> kept # {}] : kept \in SUBSET d[folder].files}

\* app.js removeFolder on each of the four staging folders (Promise.all):
\* fs.rm with recursive and force; a failure is logged and swallowed and
\* leaves the folder as it was.  failed is the set of folders whose rm
\* failed.
removeFolders_skipFinal(d, failed) ==
  [f \in Folders |->
     IF f \in failed \/ f = FINAL_FOLDER THEN d[f] ELSE Absent]

removeFolders(d, failed) ==
  [f \in Folders |-> IF f \in failed THEN d[f] ELSE Absent]

RemovableFailures(d, budget) ==
  {F \in SUBSET {f \in Folders : d[f].exists} : Cardinality(F) <= budget}

CleanupOrder == <<STAGE_1_FOLDER, STAGE_2_FOLDER, FINAL_FOLDER, TEMP_UPLOAD_FOLDER>>

\* part_000 cleanupTempFolders: rmSync on each existing folder in order; the
\* first failure throws.  failAt = 0 when every rmSync succeeds, else the
\* position in CleanupOrder of the folder whose rmSync throws.
cleanupTempFolders(d, failAt) ==
  [f \in Folders |->
     LET k == CHOOSE i \in 1..4 : CleanupOrder[i] = f
     IN IF failAt = 0 \/ k < failAt THEN Absent ELSE d[f]]

CleanupFailures(d) == {0} \cup {k \in 1..4 : d[CleanupOrder[k]].exists}

\* app.js removeFile(FINAL_PDF_PATH): unlink, every failure swallowed
removeFile(file, fails) == IF fails THEN file ELSE NoFile

(* ------------------------------- errors -------------------------------- *)
\* a message is a sequence of parts; the wrappers of app.js put their own
\* text before the message they caught
ConvertPrefix == "Failed to convert PDF: "
StagePrefix == <<"Stage 1 processing failed: ", "Stage 2 processing failed: ",
                 "Final processing failed: ">>
CreatePrefix == "Failed to create PDF: "

\* app.js: catch (error) { throw new Error(`<prefix>${error.message}`) }
wrapError(prefix, message) == <<prefix>> \o message

Throw_andGoOn(p, phase, prefix, message) ==
  [p EXCEPT !.error = message, !.cause = message, !.failedIn = phase]

\* the handler's locals after `message` is thrown inside the phase whose
\* wrapper text is prefix: app.js wraps it and enters the catch block of
\* processPdfPipeline, part_000 lets it reach the request handler as it is
Throw(p, phase, prefix, message) ==
  IF impl = "app.js"
  THEN [p EXCEPT !.error = wrapError(prefix, message), !.cause = message,
                 !.failedIn = phase, !.pc = "catch"]
  ELSE [p EXCEPT !.error = message, !.cause = message,
                 !.failedIn = phase, !.pc = "rejected"]

CleanOutcomes(d, folder) ==
  IF impl = "app.js" THEN cleanFolder(d, folder) ELSE cleanFolderSync(d, folder)

Filter(files) ==
  IF impl = "app.js" THEN filterImageFiles(files) ELSE filterRegex(files)

(* ------------------------- the request handler ------------------------- *)
\* runs are single flight: a request starts when every earlier one has been
\* answered and no later one has started
SingleFlight(r) ==
  \A q \in Runs \ {r} : proc[q].pc = (IF q < r THEN "done" ELSE "idle")

\* the row and column fields a request body can give in the pipeline
\* specification; <<>> stands for a missing or empty field
BodyParams ==
  { [row |-> <<>>, column |-> <<>>], [row |-> <<"1">>, column |-> <<"1">>] }

\* app.js handler: request.body.row || DEFAULT_ROWS.toString()
bodyOrDefault(value, defaultValue) ==
  IF value = <<>> THEN toString(defaultValue) ELSE value

\* what is kept of an answered request once the next one starts: of the
\* one just before, its inputs, its layout, its answer and its document;
\* of older ones, nothing (the locals of a finished handler are gone)
Summary(p) ==
  [IdleProc EXCEPT !.pc = "done", !.pdf = p.pdf,
                   !.rowParam = p.rowParam, !.columnParam = p.columnParam,
                   !.rows = p.rows, !.columns = p.columns,
                   !.response = p.response, !.doc = p.doc,
                   !.stream = p.stream]

Forgotten(p) == [IdleProc EXCEPT !.pc = "done", !.stream = p.stream]

\* POST /api/process-pdf up to the first await of the pipeline; part_000's
\* main begins by creating the four staging folders
StartRun(r) ==
  /\ proc[r].pc = "idle"
  /\ SingleFlight(r)
  /\ \E pdf \in Pdfs, body \in BodyParams :
       proc' = [q \in Runs |->
                  IF q = r
                  THEN [IdleProc EXCEPT
                          !.pc = "convert", !.pdf = pdf,
                          !.rowParam = IF impl = "app.js"
                                       THEN bodyOrDefault(body.row, DEFAULT_ROWS)
                                       ELSE body.row,
                          !.columnParam = IF impl = "app.js"
                                          THEN bodyOrDefault(body.column,
                                                             DEFAULT_COLUMNS)
                                          ELSE body.column]
                  ELSE IF q = r - 1 THEN Summary(proc[q])
                  ELSE IF q < r THEN Forgotten(proc[q])
                  ELSE proc[q]]
  /\ dirs' = IF impl = "app.js" THEN dirs
             ELSE [f \in Folders |-> [dirs[f] EXCEPT !.exists = TRUE]]
  /\ UNCHANGED <<impl, out, faults>>

(* ------------------------------ rasterizer ----------------------------- *)
\* convertPdfToImages / convertPDF, up to the await of load: ensure and
\* clean the output folder
ConvertBegin(r) ==
  /\ proc[r].pc = "convert"
  /\ \E c \in CleanOutcomes(ensureFolderExists(dirs, TEMP_UPLOAD_FOLDER),
                            TEMP_UPLOAD_FOLDER) :
       /\ faults + c.swallowed <= MaxFaults
       /\ faults' = faults + c.swallowed
       /\ dirs' = c.dirs
       /\ proc' = [proc EXCEPT ![r] =
                     IF c.threw
                     THEN Throw(@, "convert", ConvertPrefix, <<"unlink">>)
                     ELSE [@ EXCEPT !.pc = "load"]]
  /\ UNCHANGED <<impl, out>>

\* load and convert: one image per page is written, or the library throws
\* after writing only the first `written` pages
ConvertPages(r) ==
  /\ proc[r].pc = "load"
  /\ LET pdf == proc[r].pdf
         writable == dirs[TEMP_UPLOAD_FOLDER].exists
     IN \E written \in {n \in 0..pdf.numPages : writable \/ n = 0} :
          /\ dirs' = [dirs EXCEPT
                        ![TEMP_UPLOAD_FOLDER].files =
                           @ \cup {PageName(pdf.tag, i) : i \in 1..written},
                        ![TEMP_UPLOAD_FOLDER].gray =
                           [n \in DOMAIN @ \cup
                                   {PageName(pdf.tag, i) : i \in 1..written} |->
                              IF n \in {PageName(pdf.tag, i) : i \in 1..written}
                              THEN pdf.gray ELSE @[n]]]
          /\ proc' = [proc EXCEPT ![r] =
                        IF written = pdf.numPages /\ writable
                        THEN [@ EXCEPT !.pc = "stage1"]
                        ELSE Throw(@, "convert", ConvertPrefix, <<"rasterizer">>)]
  /\ UNCHANGED <<impl, out, faults>>

convertPdfToImages(r) == ConvertBegin(r) \/ ConvertPages(r)

(* --------------------------- transform stages -------------------------- *)
StageIn == <<TEMP_UPLOAD_FOLDER, STAGE_1_FOLDER, STAGE_2_FOLDER>>
StageOut == <<STAGE_1_FOLDER, STAGE_2_FOLDER, FINAL_FOLDER>>
StagePc == <<"stage1", "stage2", "final">>
StageLoopPc == <<"stage1loop", "stage2loop", "finalloop">>
StageNextPc_skipStageTwo == <<"final", "final", "validate">>

StageNextPc == <<"stage2", "final", "validate">>

\* a stage up to its loop: ensure and clean the output folder, list the
\* input folder (a missing folder throws ENOENT), keep the image files,
\* return at once when there is none
StageBegin(r, k) ==
  /\ proc[r].pc = StagePc[k]
  /\ \E c \in CleanOutcomes(ensureFolderExists(dirs, StageOut[k]), StageOut[k]) :
       /\ faults + c.swallowed <= MaxFaults
       /\ faults' = faults + c.swallowed
       /\ dirs' = c.dirs
       /\ IF c.threw
          THEN proc' = [proc EXCEPT ![r] =
                          Throw(@, StagePc[k], StagePrefix[k], <<"unlink">>)]
          ELSE IF ~c.dirs[StageIn[k]].exists
          THEN proc' = [proc EXCEPT ![r] =
                          Throw(@, StagePc[k], StagePrefix[k], <<"ENOENT">>)]
          ELSE \E files \in readdir(c.dirs[StageIn[k]].files) :
                 LET imageFiles == Filter(files)
                 IN proc' = [proc EXCEPT ![r] =
                               IF imageFiles = <<>>
                               THEN [@ EXCEPT !.pc = StageNextPc[k]]
                               ELSE [@ EXCEPT !.pc = StageLoopPc[k],
                                              !.files = imageFiles]]
  /\ UNCHANGED <<impl, out>>

\* sharp's operations on one 8-bit gray sample.  grayscale leaves a gray
\* sample as it is; negate gives 255 - x; linear(a, b) gives a * x + b, here
\* in tenths with a given in tenths; toFile stores 8-bit samples: the value
\* is clipped to 0..255 and a fraction is cut off or rounded to the nearest
\* integer, as the image library in use does
grayscale(x) == x
negate(x) == 255 - x
linear(a, b, x) == a * x + 10 * b
toFile(tenths) ==
  LET clipped == IF tenths < 0 THEN 0
                 ELSE IF tenths > 2550 THEN 2550 ELSE tenths
  IN {clipped \div 10, (clipped + 5) \div 10}

\* the arguments of linear in stage 1, stage 2 and the final stage
LinearGain == <<13, 12, 15>>
LinearOffset == <<0 - 50, 0 - 30, 0 - 30>>

sharp_stageOneArguments(k, x) ==
  toFile(linear(LinearGain[1], LinearOffset[1],
                negate(IF k = 1 THEN grayscale(x) ELSE x)))

\* the sample stage k writes for a sample x it read
sharp(k, x) ==
  toFile(linear(LinearGain[k], LinearOffset[k],
                negate(IF k = 1 THEN grayscale(x) ELSE x)))

\* mutant of writeImage: the image is moved, its name is left in no other
\* folder
writeImage_move(d, folder, file, v) ==
  [f \in Folders |->
     IF f = folder
     THEN [d[f] EXCEPT !.files = @ \cup {file}, !.gray = write(@, file, v)]
     ELSE [d[f] EXCEPT !.files = @ \ {file}, !.gray = keep(@, DOMAIN @ \ {file})]]

\* toFile(path.join(outputFolder, file)): the image is written under the
\* name of the file that was read; nothing is done to the file read
writeImage(d, folder, file, v) ==
  [d EXCEPT ![folder].files = @ \cup {file},
            ![folder].gray = write(@, file, v)]

StageFile_skipFailed(r, k) ==
  /\ proc[r].pc = StageLoopPc[k]
  /\ proc[r].files # <<>>
  /\ LET file == Head(proc[r].files)
         readable == /\ dirs[StageIn[k]].exists
                     /\ file \in dirs[StageIn[k]].files
                     /\ dirs[StageOut[k]].exists
     IN \E ok \in {b \in BOOLEAN : b => readable} :
          /\ IF ok
             THEN \E v \in sharp(k, dirs[StageIn[k]].gray[file]) :
                    dirs' = [dirs EXCEPT
                               ![StageOut[k]].files = @ \cup {file},
                               ![StageOut[k]].gray = write(@, file, v)]
             ELSE dirs' = dirs
          /\ proc' = [proc EXCEPT ![r].files = Tail(@)]
  /\ UNCHANGED <<impl, out, faults>>

\* one iteration of the loop: sharp reads the file from the input folder
\* and writes the transformed image under the same name to the output
\* folder; any failure leaves the loop
StageFile(r, k) ==
  /\ proc[r].pc = StageLoopPc[k]
  /\ proc[r].files # <<>>
  /\ LET file == Head(proc[r].files)
         readable == /\ dirs[StageIn[k]].exists
                     /\ file \in dirs[StageIn[k]].files
                     /\ dirs[StageOut[k]].exists
     IN \E ok \in {b \in BOOLEAN : b => readable} :
          IF ok
          THEN /\ \E v \in sharp(k, dirs[StageIn[k]].gray[file]) :
                    dirs' = writeImage(dirs, StageOut[k], file, v)
               /\ proc' = [proc EXCEPT ![r].files = Tail(@)]
          ELSE /\ dirs' = dirs
               /\ proc' = [proc EXCEPT ![r] =
                             Throw(@, StagePc[k], StagePrefix[k], <<"sharp">>)]
  /\ UNCHANGED <<impl, out, faults>>

\* after the last file.  part_000's mainFinalOutput then removes its input
\* folder with rmSync, which throws when it fails.
StageEnd(r, k) ==
  /\ proc[r].pc = StageLoopPc[k]
  /\ proc[r].files = <<>>
  /\ IF impl = "part_000" /\ k = 3
     THEN \E removed \in BOOLEAN :
            IF removed
            THEN /\ dirs' = [dirs EXCEPT ![StageIn[k]] = Absent]
                 /\ proc' = [proc EXCEPT ![r].pc = StageNextPc[k]]
            ELSE /\ dirs[StageIn[k]].exists
                 /\ dirs' = dirs
                 /\ proc' = [proc EXCEPT ![r] =
                               Throw(@, StagePc[k], StagePrefix[k], <<"rm">>)]
     ELSE /\ dirs' = dirs
          /\ proc' = [proc EXCEPT ![r].pc = StageNextPc[k]]
  /\ UNCHANGED <<impl, out, faults>>

TransformStage(r, k) == StageBegin(r, k) \/ StageFile(r, k) \/ StageEnd(r, k)

applyStageOneProcessing(r) == TransformStage(r, 1)
applyStageTwoProcessing(r) == TransformStage(r, 2)
applyFinalProcessing(r) == TransformStage(r, 3)

(* -------------------------- layout parameters -------------------------- *)
\* processPdfPipeline step 5 / part_000 main "Layout"
Validate(r) ==
  /\ proc[r].pc = "validate"
  /\ LET p == proc[r]
         columns == IF impl = "app.js"
                    THEN validateInteger(p.columnParam, 1, MAX_COLUMNS,
                                         DEFAULT_COLUMNS)
                    ELSE mainLayout(p.columnParam, MAX_COLUMNS, DEFAULT_COLUMNS)
         rows == IF impl = "app.js"
                 THEN validateInteger(p.rowParam, 1, MAX_ROWS, DEFAULT_ROWS)
                 ELSE mainLayout(p.rowParam, MAX_ROWS, DEFAULT_ROWS)
     IN proc' = [proc EXCEPT ![r] =
                   [p EXCEPT !.pc = "assemble", !.columns = columns,
                             !.rows = rows]]
  /\ UNCHANGED <<impl, dirs, out, faults>>

(* ---------------------------- grid assembler --------------------------- *)
\* imageWidth = A4_WIDTH / columns: the numerator over `columns`
imageWidth == A4_WIDTH
\* mutant of imageHeight: the whole row height, the factor 0.9 left out
imageHeight_wholeRow == A4_HEIGHT * 10

\* imageHeight = (A4_HEIGHT / rows) * 0.9: the numerator over 10 * rows
imageHeight == A4_HEIGHT * 9
\* a length in x, in y, given in page units
UnitsX(n, columns) == n * columns
UnitsY(n, rows) == n * 10 * rows

\* mutant of NeedNewPage: the rows are left out of the page capacity
NeedNewPage_columnsOnly(imageCount, columns, rows) == imageCount % columns = 0

\* if (imageCount % (columns * rows) === 0): a new page is added
NeedNewPage(imageCount, columns, rows) == imageCount % (columns * rows) = 0

\* mutant of NextCursor: the wrap test reads the count before the increment
NextCursor_wrapEarly(currentX, currentY, imageCount, columns) ==
  IF imageCount % columns = 0
  THEN [x |-> 0, y |-> currentY + imageHeight]
  ELSE [x |-> currentX + imageWidth, y |-> currentY]

\* "Move to next position": the cursor after the tile of index imageCount
NextCursor(currentX, currentY, imageCount, columns) ==
  IF (imageCount + 1) % columns = 0
  THEN [x |-> 0, y |-> currentY + imageHeight]
  ELSE [x |-> currentX + imageWidth, y |-> currentY]

\* mutant of Label: the count is printed as it is, zero based
Label_zeroBased(imageCount) == toString(imageCount)

\* the text of the "page number" drawn on the tile of index imageCount
Label(imageCount) == toString(imageCount + 1)

\* mutant of Tile: the fallback draws into the padded box of the fit draw
Tile_fallbackPadded(file, page, x, y, columns, rows, draw, imageCount) ==
  [ file |-> file, page |-> page, draw |-> draw,
    image |-> [x |-> x + UnitsX(padding, columns),
               y |-> y + UnitsY(padding, rows),
               w |-> imageWidth - UnitsX(2 * padding, columns),
               h |-> imageHeight - UnitsY(2 * padding, rows)],
    rect |-> [x |-> x, y |-> y, w |-> imageWidth, h |-> imageHeight],
    label |-> Label(imageCount),
    labelAt |-> [x |-> x + imageWidth - UnitsX(15, columns),
                 y |-> y + imageHeight - UnitsY(15, rows)] ]

\* what one iteration draws for `file` with the cursor at (x, y):
\* the image, fit into the padded box or, on the fallback path, stretched
\* over the whole tile; the border; the label
Tile(file, page, x, y, columns, rows, draw, imageCount) ==
  [ file |-> file, page |-> page, draw |-> draw,
    image |-> IF draw = "fit"
              THEN [x |-> x + UnitsX(padding, columns),
                    y |-> y + UnitsY(padding, rows),
                    w |-> imageWidth - UnitsX(2 * padding, columns),
                    h |-> imageHeight - UnitsY(2 * padding, rows)]
              ELSE [x |-> x, y |-> y, w |-> imageWidth, h |-> imageHeight],
    rect |-> [x |-> x, y |-> y, w |-> imageWidth, h |-> imageHeight],
    label |-> Label(imageCount),
    labelAt |-> [x |-> x + imageWidth - UnitsX(15, columns),
                 y |-> y + imageHeight - UnitsY(15, rows)] ]

\* createPdfFromImages up to the loop: list the folder, keep the image
\* files; with none, app.js throws and part_000 returns; else sort, open
\* the write stream on FINAL_PDF_PATH (which truncates the file) and start
\* with the cursor at the origin
AsmBegin(r) ==
  /\ proc[r].pc = "assemble"
  /\ IF ~dirs[FINAL_FOLDER].exists
     THEN /\ proc' = [proc EXCEPT ![r] =
                        Throw(@, "assemble", CreatePrefix, <<"ENOENT">>)]
          /\ out' = out
     ELSE \E files \in readdir(dirs[FINAL_FOLDER].files) :
            LET imageFiles == sort(Filter(files))
            IN IF imageFiles = <<>>
               THEN /\ proc' = [proc EXCEPT ![r] =
                                  IF impl = "app.js"
                                  THEN Throw([@ EXCEPT !.found = 0],
                                             "assemble", CreatePrefix,
                                             <<"No images found to create PDF">>)
                                  ELSE [@ EXCEPT !.pc = "cleanup", !.found = 0]]
                    /\ out' = out
               ELSE /\ proc' = [proc EXCEPT ![r] =
                                  [@ EXCEPT !.pc = "asmloop",
                                            !.found = Len(imageFiles),
                                            !.files = files,
                                            !.imageFiles = imageFiles,
                                            !.imageCount = 0,
                                            !.currentX = 0, !.currentY = 0,
                                            !.doc = EmptyDoc,
                                            !.stream = "open"]]
                    /\ out' = [exists |-> TRUE, run |-> r, complete |-> FALSE,
                               doc |-> EmptyDoc]
  /\ UNCHANGED <<impl, dirs, faults>>

\* how pdfDocument.image can go for one file: the fit draw succeeds, or it
\* throws and the stretch draw succeeds, or both throw
Draws == {"fit", "stretch", "throw"}

\* one iteration of the loop; an image file that is no longer in the folder
\* cannot be drawn either way
AsmTile(r) ==
  /\ proc[r].pc = "asmloop"
  /\ proc[r].imageCount < Len(proc[r].imageFiles)
  /\ LET p == proc[r]
         file == p.imageFiles[p.imageCount + 1]
         newPage == NeedNewPage(p.imageCount, p.columns, p.rows)
         pages == IF newPage THEN p.doc.pages + 1 ELSE p.doc.pages
         x == IF newPage THEN 0 ELSE p.currentX
         y == IF newPage THEN 0 ELSE p.currentY
         next == NextCursor(x, y, p.imageCount, p.columns)
         present == dirs[FINAL_FOLDER].exists /\ file \in dirs[FINAL_FOLDER].files
   IN \E draw \in {d \in Draws : /\ d = "stretch" => faults < MaxFaults
                                 /\ d # "throw" => present} :
          /\ faults' = IF draw = "stretch" THEN faults + 1 ELSE faults
          /\ proc' = [proc EXCEPT ![r] =
               IF draw = "throw"
               THEN Throw([p EXCEPT !.doc.pages = pages,
                                    !.currentX = x, !.currentY = y],
                          "assemble", CreatePrefix, <<"image">>)
               ELSE [p EXCEPT
                       !.doc = [pages |-> pages,
                                tiles |-> Append(p.doc.tiles,
                                            Tile(file, pages, x, y, p.columns,
                                                 p.rows, draw, p.imageCount))],
                       !.currentX = next.x, !.currentY = next.y,
                       !.imageCount = p.imageCount + 1]]
  /\ UNCHANGED <<impl, dirs, out>>

\* after the loop: pdfDocument.end(); app.js then awaits the stream's
\* finish event, part_000 returns
AsmEnd(r) ==
  /\ proc[r].pc = "asmloop"
  /\ proc[r].imageCount = Len(proc[r].imageFiles)
  /\ proc' = [proc EXCEPT ![r] =
                [@ EXCEPT !.stream = "ended",
                          !.pc = IF impl = "app.js" THEN "awaitFinish"
                                 ELSE "cleanup"]]
  /\ UNCHANGED <<impl, dirs, out, faults>>

\* the write stream has flushed everything: the file is complete if it is
\* still this run's file; the promise app.js awaits resolves
StreamFinish(r) ==
  /\ proc[r].stream = "ended"
  /\ out' = IF out.exists /\ out.run = r
            THEN [out EXCEPT !.complete = TRUE, !.doc = proc[r].doc]
            ELSE out
  /\ proc' = [proc EXCEPT ![r] =
                [@ EXCEPT !.stream = "finished",
                          !.pc = IF @ = "awaitFinish" THEN "cleanup" ELSE @]]
  /\ UNCHANGED <<impl, dirs, faults>>

createPdfFromImages(r) ==
  AsmBegin(r) \/ AsmTile(r) \/ AsmEnd(r) \/ StreamFinish(r)

(* ----------------------------- orchestrator ---------------------------- *)
\* processPdfPipeline step 7: the four removeFolder calls; part_000:
\* cleanupTempFolders
Cleanup(r) ==
  /\ proc[r].pc = "cleanup"
  /\ IF impl = "app.js"
     THEN \E failed \in RemovableFailures(dirs, MaxFaults - faults) :
            /\ dirs' = removeFolders(dirs, failed)
            /\ faults' = faults + Cardinality(failed)
            /\ proc' = [proc EXCEPT ![r] =
                          [@ EXCEPT !.pc = "resolved", !.removals = Folders,
                                    !.rmFailed = failed]]
     ELSE \E failAt \in CleanupFailures(dirs) :
            /\ dirs' = cleanupTempFolders(dirs, failAt)
            /\ faults' = faults
            /\ LET tried == {CleanupOrder[i] : i \in
                               {j \in 1..4 : failAt = 0 \/ j <= failAt}}
               IN proc' = [proc EXCEPT ![r] =
                    IF failAt = 0
                    THEN [@ EXCEPT !.pc = "resolved", !.removals = tried]
                    ELSE [Throw(@, "cleanup", "", <<"rm">>)
                            EXCEPT !.removals = tried]]
  /\ UNCHANGED <<impl, out>>

\* processPdfPipeline's catch block: the four removeFolder calls, then
\* `throw error`
PipelineCatch(r) ==
  /\ proc[r].pc = "catch"
  /\ \E failed \in RemovableFailures(dirs, MaxFaults - faults) :
       /\ dirs' = removeFolders(dirs, failed)
       /\ faults' = faults + Cardinality(failed)
       /\ proc' = [proc EXCEPT ![r] =
                     [@ EXCEPT !.pc = "rejected", !.removals = Folders,
                               !.rmFailed = failed]]
  /\ UNCHANGED <<impl, out>>

processPdfPipeline(r) ==
  \/ convertPdfToImages(r)
  \/ applyStageOneProcessing(r)
  \/ applyStageTwoProcessing(r)
  \/ applyFinalProcessing(r)
  \/ Validate(r)
  \/ createPdfFromImages(r)
  \/ Cleanup(r)
  \/ PipelineCatch(r)

(* --------------------- the request handler, continued ------------------ *)
\* after the pipeline resolved: app.js checks that the output file exists
\* and streams it; part_000 streams it unchecked
HandlerSend(r) ==
  /\ proc[r].pc = "resolved"
  /\ proc' = [proc EXCEPT ![r] =
       IF impl = "app.js"
       THEN IF out.exists
            THEN [@ EXCEPT !.pc = "streaming", !.response = "pdf", !.sent = out]
            ELSE [@ EXCEPT !.pc = "done", !.response = "500",
                    !.error = <<"PDF processing completed but output file was not created">>]
       ELSE [@ EXCEPT !.pc = "done",
                      !.response = IF out.exists THEN "pdf" ELSE "stream error",
                      !.sent = out]]
  /\ UNCHANGED <<impl, dirs, out, faults>>

\* app.js, readStream 'close': removeFile(FINAL_PDF_PATH)
StreamClose(r) ==
  /\ proc[r].pc = "streaming"
  /\ \E fails \in {b \in BOOLEAN : b => (out.exists /\ faults < MaxFaults)} :
       /\ out' = removeFile(out, fails)
       /\ faults' = IF fails THEN faults + 1 ELSE faults
  /\ proc' = [proc EXCEPT ![r].pc = "done"]
  /\ UNCHANGED <<impl, dirs>>

\* the handler's catch block: answer 500 with error.message; app.js first
\* removes the output file
HandlerCatch(r) ==
  /\ proc[r].pc = "rejected"
  /\ \E fails \in {b \in BOOLEAN :
                     b => (impl = "app.js" /\ out.exists /\ faults < MaxFaults)} :
       /\ out' = IF impl = "app.js" THEN removeFile(out, fails) ELSE out
       /\ faults' = IF fails THEN faults + 1 ELSE faults
  /\ proc' = [proc EXCEPT ![r] = [@ EXCEPT !.pc = "done", !.response = "500"]]
  /\ UNCHANGED <<impl, dirs>>

Handler(r) ==
  \/ StartRun(r)
  \/ processPdfPipeline(r)
  \/ HandlerSend(r)
  \/ StreamClose(r)
  \/ HandlerCatch(r)

(* ---------------------------- specifications --------------------------- *)
\* what a server process can find in the staging folders when it starts:
\* nothing, or what an interrupted run of an earlier process left (app.js
\* removes the folders at startup, swallowing failures; part_000 does not)
Leftover ==
  [exists |-> TRUE, files |-> {PageName("b", 1)},
   gray |-> [n \in {PageName("b", 1)} |-> 0]]

InitialStores == {[f \in Folders |-> Absent], [f \in Folders |-> Leftover]}

Init ==
  /\ impl \in Impls
  /\ dirs \in InitialStores
  /\ out = NoFile
  /\ proc = [r \in Runs |-> IdleProc]
  /\ faults = 0

Next == \E r \in Runs : Handler(r)

Spec == Init /\ [][Next]_vars

\* mutant of StartOverlapping: a request starts by emptying every staging
\* folder
StartOverlapping_cleanFirst(r) ==
  /\ proc[r].pc = "idle"
  /\ \E q \in Runs \ {r} : proc[q].pc \notin {"idle", "done"}
  /\ \E pdf \in Pdfs, body \in BodyParams :
       proc' = [proc EXCEPT ![r] =
                  [IdleProc EXCEPT
                     !.pc = "convert", !.pdf = pdf,
                     !.rowParam = bodyOrDefault(body.row, DEFAULT_ROWS),
                     !.columnParam = bodyOrDefault(body.column, DEFAULT_COLUMNS)]]
  /\ dirs' = [f \in Folders |->
                [exists |-> TRUE, files |-> {}, gray |-> NoImages]]
  /\ UNCHANGED <<impl, out, faults>>

\* overlapping requests: the handler is an async function of an HTTP
\* server and nothing keeps a request from being accepted while the
\* pipeline of an earlier one is waiting at an await; it then runs the same
\* handler on the same folders and the same output file
StartOverlapping(r) ==
  /\ proc[r].pc = "idle"
  /\ \E q \in Runs \ {r} : proc[q].pc \notin {"idle", "done"}
  /\ \E pdf \in Pdfs, body \in BodyParams :
       proc' = [proc EXCEPT ![r] =
                  [IdleProc EXCEPT
                     !.pc = "convert", !.pdf = pdf,
                     !.rowParam = IF impl = "app.js"
                                  THEN bodyOrDefault(body.row, DEFAULT_ROWS)
                                  ELSE body.row,
                     !.columnParam = IF impl = "app.js"
                                     THEN bodyOrDefault(body.column,
                                                        DEFAULT_COLUMNS)
                                     ELSE body.column]]
  /\ dirs' = IF impl = "app.js" THEN dirs
             ELSE [f \in Folders |-> [dirs[f] EXCEPT !.exists = TRUE]]
  /\ UNCHANGED <<impl, out, faults>>

\* a fresh server process, no failure of a deletion being swallowed
InitOverlap ==
  /\ impl \in Impls
  /\ dirs = [f \in Folders |-> Absent]
  /\ out = NoFile
  /\ proc = [r \in Runs |-> IdleProc]
  /\ faults = MaxFaults

NextOverlap == \E r \in Runs : Handler(r) \/ StartOverlapping(r)

SpecOverlap == InitOverlap /\ [][NextOverlap]_vars

\* a gray value an image of folder f can have when the source page had v
toned(v, f) ==
  LET one == CHOOSE y \in sharp(1, v) : TRUE
      two == CHOOSE y \in sharp(2, one) : TRUE
  IN CASE f = TEMP_UPLOAD_FOLDER -> v
       [] f = STAGE_1_FOLDER -> one
       [] f = STAGE_2_FOLDER -> two
       [] f = FINAL_FOLDER -> CHOOSE y \in sharp(3, two) : TRUE

(* The assembler alone, on every validated layout: createPdfFromImages     *)
(* called with a final folder of 0..MaxImages images.                      *)
AfterStages(pdf) ==
  [f \in Folders |->
     IF impl = "part_000" /\ f = STAGE_2_FOLDER /\ pdf.numPages > 0
     THEN Absent
     ELSE [exists |-> TRUE, files |-> Pages(pdf),
           gray |-> [n \in Pages(pdf) |-> toned(pdf.gray, f)]]]

InitGrid ==
  /\ impl \in Impls
  /\ out = NoFile
  /\ faults = 0
  /\ \E n \in 0..MaxImages, columns \in 1..MAX_COLUMNS, rows \in 1..MAX_ROWS :
       LET pdf == [tag |-> "a", numPages |-> n, gray |-> 0]
       IN /\ dirs = AfterStages(pdf)
          /\ proc = [r \in Runs |->
                       IF r = 1
                       THEN [IdleProc EXCEPT
                               !.pc = "assemble", !.pdf = pdf,
                               !.rowParam = toString(rows),
                               !.columnParam = toString(columns),
                               !.rows = rows, !.columns = columns]
                       ELSE IdleProc]

NextGrid == createPdfFromImages(1)

SpecGrid == InitGrid /\ [][NextGrid]_vars

(* Layout validation alone, on every raw parameter of at most MaxParamLen  *)
(* characters.                                                             *)
ParamChars == {"0", "1", "2", "5", "x", "-", " "}

RawParams == SeqsUpTo(ParamChars, MaxParamLen)

InitLayout ==
  /\ impl \in Impls
  /\ out = NoFile
  /\ faults = 0
  /\ dirs = AfterStages([tag |-> "a", numPages |-> 1, gray |-> 0])
  /\ \E row \in RawParams, column \in RawParams :
       proc = [r \in Runs |->
                 IF r = 1
                 THEN [IdleProc EXCEPT
                         !.pc = "validate",
                         !.pdf = [tag |-> "a", numPages |-> 1, gray |-> 0],
                         !.rowParam = IF impl = "app.js"
                                      THEN bodyOrDefault(row, DEFAULT_ROWS)
                                      ELSE row,
                         !.columnParam = IF impl = "app.js"
                                         THEN bodyOrDefault(column, DEFAULT_COLUMNS)
                                         ELSE column]
                 ELSE IdleProc]

NextLayout == Validate(1)

SpecLayout == InitLayout /\ [][NextLayout]_vars

(* The three transform stages alone, on a rasterized page of every gray    *)
(* value.                                                                  *)
InitTone ==
  /\ impl \in Impls
  /\ out = NoFile
  /\ faults = 0
  /\ \E v \in 0..255 :
       LET pdf == [tag |-> "a", numPages |-> 1, gray |-> v]
       IN /\ dirs = [f \in Folders |->
                       IF f = TEMP_UPLOAD_FOLDER
                       THEN [exists |-> TRUE, files |-> Pages(pdf),
                             gray |-> [n \in Pages(pdf) |-> v]]
                       ELSE IF impl = "part_000"
                       THEN [Absent EXCEPT !.exists = TRUE]
                       ELSE Absent]
          /\ proc = [r \in Runs |->
                       IF r = 1
                       THEN [IdleProc EXCEPT !.pc = "stage1", !.pdf = pdf]
                       ELSE IdleProc]

NextTone ==
  \/ applyStageOneProcessing(1)
  \/ applyStageTwoProcessing(1)
  \/ applyFinalProcessing(1)

SpecTone == InitTone /\ [][NextTone]_vars

(* The transform stages alone, on a source folder holding any few of a pool *)
(* of file names: images in lower and upper case, and names the filter     *)
(* must not take.                                                          *)
MaxFiles == 3

NamePool ==
  { <<"a", "1", ".", "p", "n", "g">>, <<"a", "2", ".", "P", "N", "G">>,
    <<"a", ".", "j", "p", "g">>, <<"a", ".", "j", "p", "e", "g">>,
    <<"a", ".", "w", "e", "b", "p">>, <<"a", ".", "t", "x", "t">>,
    <<"p", "n", "g">>, <<"a", ".", "p", "n", "g", ".", "t", "x", "t">> }

InitStage ==
  /\ impl \in Impls
  /\ out = NoFile
  /\ faults = 0
  /\ \E source \in {S \in SUBSET NamePool : Cardinality(S) <= MaxFiles},
        left \in BOOLEAN :
       dirs = [f \in Folders |->
                 IF f = TEMP_UPLOAD_FOLDER
                 THEN [exists |-> TRUE, files |-> source,
                       gray |-> [n \in source |-> 0]]
                 ELSE IF left THEN Leftover
                 ELSE IF impl = "part_000" THEN [Absent EXCEPT !.exists = TRUE]
                 ELSE Absent]
  /\ proc = [r \in Runs |->
               IF r = 1 THEN [IdleProc EXCEPT !.pc = "stage1"] ELSE IdleProc]

NextStage ==
  \/ applyStageOneProcessing(1)
  \/ applyStageTwoProcessing(1)
  \/ applyFinalProcessing(1)

SpecStage == InitStage /\ [][NextStage]_vars

(* ------------------------------- claims -------------------------------- *)
\* the image files of the final folder, counted and ordered without the
\* assembler's own filter and sort
FinalImages ==
  {f \in dirs[FINAL_FOLDER].files :
     \E e \in IMAGE_EXTENSIONS :
        /\ Len(f) > Len(e)
        /\ toLowerCase(SubSeq(f, Len(f) - Len(e) + 1, Len(f))) = e}

CeilDiv(n, d) == (n + d - 1) \div d

\* the assembler has placed every image and ended the document
Assembled(p) == p.stream \in {"ended", "finished"}

\* C1: for every layout with rows in 1..20 and columns in 1..10 and every
\* number N >= 1 of final images the assembler adds exactly
\* ceil(N / (rows * columns)) pages; a page is started exactly at the tiles
\* whose 0-based index is a multiple of rows * columns, so the last page is
\* never empty.
C1_PageCount ==
  LET p == proc[1]
      N == Cardinality(FinalImages)
      perPage == p.rows * p.columns
      tiles == p.doc.tiles
  IN /\ p.pc = "asmloop" => p.doc.pages = CeilDiv(p.imageCount, perPage)
     /\ Assembled(p) =>
          /\ N >= 1
          /\ Len(tiles) = N
          /\ p.doc.pages = CeilDiv(N, perPage)
          /\ tiles[N].page = p.doc.pages
     /\ p.pc \in {"asmloop", "awaitFinish", "cleanup"} =>
          \A i \in 1..Len(tiles) :
             LET before == IF i = 1 THEN 0 ELSE tiles[i - 1].page
             IN /\ tiles[i].page \in {before, before + 1}
                /\ (tiles[i].page = before + 1) <=> ((i - 1) % perPage = 0)

\* C1 witness: nine images on the default layout of 4 rows and 2 columns
\* give two pages, the second holding the ninth image alone.
C1_Witness ==
  LET p == proc[1]
  IN /\ Assembled(p)
     /\ p.rows = 4 /\ p.columns = 2
     /\ Cardinality(FinalImages) = 9
     /\ p.doc.pages = 2
     /\ p.doc.tiles[8].page = 1
     /\ p.doc.tiles[9].page = 2

\* C2: the cursor kept by the loop places image i (0-based, in ascending
\* file name order) on page floor(i / (rows * columns)) at the grid cell
\* (i mod columns, floor(i / columns) mod rows), in tile units; the first
\* tile of every page is at cell (0, 0).
C2_RowMajorPlacement ==
  LET p == proc[1]
      tiles == p.doc.tiles
      order == Ascending(FinalImages)
  IN p.pc \in {"asmloop", "awaitFinish", "cleanup"} =>
       \A k \in 1..Len(tiles) :
          LET i == k - 1
          IN /\ tiles[k].file = order[k]
             /\ tiles[k].page = (i \div (p.rows * p.columns)) + 1
             /\ tiles[k].rect.x = (i % p.columns) * imageWidth
             /\ tiles[k].rect.y = ((i \div p.columns) % p.rows) * imageHeight

\* C2 witness: a tile of a second page in a cell that is neither in the
\* first column nor in the first row.
C2_Witness ==
  \E k \in 1..Len(proc[1].doc.tiles) :
     LET t == proc[1].doc.tiles[k]
     IN t.page = 2 /\ t.rect.x > 0 /\ t.rect.y > 0

\* C3: the labels drawn on the tiles of one document are 1, 2, ..., N in
\* document order; the numbering is not reset at a page boundary and is
\* neither skipped nor repeated at a tile drawn on the stretch fallback.
C3_SequenceNumbers ==
  LET p == proc[1]
      tiles == p.doc.tiles
  IN /\ \A k \in 1..Len(tiles) :
          /\ tiles[k].label # <<>>
          /\ \A j \in 1..Len(tiles[k].label) : IsDigit(tiles[k].label[j])
          /\ DigitPrefixValue(tiles[k].label, 0) = k
     /\ Assembled(p) => Len(tiles) = Cardinality(FinalImages)

\* C3 witness: a finished document of more than one page whose stretched
\* tile is followed, on the next page, by the tile with the next number.
C3_Witness ==
  LET p == proc[1]
      tiles == p.doc.tiles
  IN /\ Assembled(p)
     /\ \E k \in 1..(Len(tiles) - 1) :
          /\ tiles[k].draw = "stretch"
          /\ tiles[k + 1].page = tiles[k].page + 1
          /\ DigitPrefixValue(tiles[k + 1].label, 0) = k + 1

\* no later request has started: the store is as request r left it
Latest(r) == \A q \in Runs : q > r => proc[q].pc = "idle"

\* the pipeline call of request r has returned normally
Resolved(p) ==
  p.failedIn = "none" /\ p.pc \in {"resolved", "streaming", "done"}

\* the pipeline call of request r has thrown and the request was answered
Failed(p) == p.failedIn # "none" /\ p.pc = "done"

\* C4: when the final folder holds no qualifying image, the assembler
\* writes no output document and signals no error: it returns normally and
\* the pipeline run does not fail because of it.
C4_EmptyIsNotAnError ==
  \A r \in Runs :
     LET p == proc[r]
     IN p.found = 0 =>
          /\ p.failedIn # "assemble"
          /\ p.stream = "none"
          /\ ~(out.exists /\ out.run = r)

\* C5: what the claim calls an integer: an optional sign and digits, white
\* space around them allowed, nothing else
RECURSIVE SkipWhiteRight(_)
SkipWhiteRight(s) ==
  IF s # <<>> /\ s[Len(s)] = " "
  THEN SkipWhiteRight(SubSeq(s, 1, Len(s) - 1))
  ELSE s

IsIntegerText(s) ==
  LET t == SkipWhiteRight(SkipWhite(s))
      u == IF t # <<>> /\ Head(t) = "-" THEN Tail(t) ELSE t
  IN u # <<>> /\ \A i \in 1..Len(u) : IsDigit(u[i])

IntegerOf(s) ==
  LET t == SkipWhiteRight(SkipWhite(s))
  IN IF Head(t) = "-" THEN 0 - DigitPrefixValue(Tail(t), 0)
     ELSE DigitPrefixValue(t, 0)

Supplied(s, max, defaultValue) ==
  IF IsIntegerText(s) /\ IntegerOf(s) >= 1 /\ IntegerOf(s) <= max
  THEN IntegerOf(s)
  ELSE defaultValue

\* C5: rows and columns are validated independently and never fail the
\* request: the validated columns is the supplied value if that is an
\* integer in 1..10 and else the default 2, the validated rows is the
\* supplied value if that is an integer in 1..20 and else the default 4;
\* so 1 <= columns <= 10 and 1 <= rows <= 20 reach the assembler.
C5_ValidatedIsSuppliedOrDefault ==
  \A r \in Runs :
     LET p == proc[r]
     IN p.pc = "assemble" =>
          /\ p.failedIn = "none"
          /\ p.columns = Supplied(p.columnParam, MAX_COLUMNS, DEFAULT_COLUMNS)
          /\ p.rows = Supplied(p.rowParam, MAX_ROWS, DEFAULT_ROWS)
          /\ p.columns \in 1..MAX_COLUMNS
          /\ p.rows \in 1..MAX_ROWS

\* the phases of a run before its clean-up
Phases == {"convert", "stage1", "stage2", "final", "assemble"}

\* C6 as stated: after a pipeline run that ends successfully none of the
\* four staging folders exists.
C6_NoStagingAfterSuccess ==
  \A r \in Runs :
     (Resolved(proc[r]) /\ Latest(r)) => \A f \in Folders : ~dirs[f].exists

\* C6: after a pipeline run that ends successfully the removal of each of
\* the four staging folders has been attempted, and a staging folder that
\* still exists is one whose removal failed (the failure is logged and the
\* run still succeeds); every other staging folder is gone.
C6_StagingRemovedUnlessRemovalFailed ==
  \A r \in Runs :
     LET p == proc[r]
     IN (Resolved(p) /\ Latest(r)) =>
          /\ p.removals = Folders
          /\ \A f \in Folders : dirs[f].exists => f \in p.rmFailed

\* C6 witness: a run that assembled a document and succeeded, with one
\* staging folder left because its removal failed and the other three gone.
C6_Witness ==
  \E r \in Runs :
     LET p == proc[r]
     IN /\ Resolved(p) /\ Latest(r)
        /\ p.found > 0
        /\ Cardinality(p.rmFailed) = 1
        /\ \A f \in Folders : dirs[f].exists <=> f \in p.rmFailed

\* C7: after a pipeline run that failed in rasterizing, stage 1, stage 2,
\* stage 3 or assembling none of the four staging folders exists, the
\* removal of every one of them having been attempted before the error
\* reached the caller.
C7_NoStagingAfterFailure ==
  \A r \in Runs :
     LET p == proc[r]
     IN (p.failedIn \in Phases /\ p.pc \in {"rejected", "done"} /\ Latest(r)) =>
          /\ p.removals = Folders
          /\ \A f \in Folders : ~dirs[f].exists

\* C8: when a run fails, the message the caller of the pipeline gets is
\* the message of the failing operation, unchanged: nothing put before it,
\* nothing in its place, a failed removal in the catch block included.
C8_OriginalErrorUnmodified ==
  \A r \in Runs :
     LET p == proc[r]
     IN (p.failedIn # "none" /\ p.pc \in {"rejected", "done"}) =>
          p.error = p.cause

\* C9: once a failed run has been answered, no partly written output
\* document of that run is at the output location and none of the page
\* images of that run is in a staging folder; this includes a failure
\* raised in the assembler after the output stream was opened.
C9_NoArtifactAfterFailure ==
  \A r \in Runs :
     LET p == proc[r]
     IN (Failed(p) /\ Latest(r)) =>
          /\ ~(out.exists /\ out.run = r /\ ~out.complete)
          /\ \A f \in Folders : dirs[f].files \cap Pages(p.pdf) = {}

\* the placement of a document's tiles, the draw mode left out
Geometry(doc) ==
  [ pages |-> doc.pages,
    tiles |-> [k \in 1..Len(doc.tiles) |->
                 [ file |-> doc.tiles[k].file, page |-> doc.tiles[k].page,
                   rect |-> doc.tiles[k].rect, label |-> doc.tiles[k].label,
                   labelAt |-> doc.tiles[k].labelAt ]] ]

\* C10: two successive pipeline runs on the same source document with the
\* same layout parameters, both answered with a document, give the same
\* number of pages and, tile by tile, the same file, page, origin, size
\* and sequence number.
C10_SuccessiveRunsSameGeometry ==
  \A r \in Runs :
     r + 1 \in Runs =>
       LET a == proc[r]
           b == proc[r + 1]
       IN ( /\ a.pc = "done" /\ a.response = "pdf" /\ Assembled(a)
            /\ b.response = "pdf" /\ Assembled(b)
            /\ a.pdf = b.pdf
            /\ a.rowParam = b.rowParam /\ a.columnParam = b.columnParam )
          => Geometry(a.doc) = Geometry(b.doc)

\* C11: there is one output location; a run that completes has overwritten
\* the document of the run before it, so once a run has returned normally
\* the document at the output location, if there is one, is the document
\* of that run and never the document of an earlier run.
C11_OutputIsOfThisRun ==
  \A r \in Runs :
     (Resolved(proc[r]) /\ Latest(r) /\ out.exists) => out.run = r

\* C12: tile k of the document holds the k-th image file of the final
\* folder in ascending file name order, whatever the order in which the
\* directory listing returned the files: the files of the tiles placed so
\* far are strictly ascending, each is smaller than every file not yet
\* placed, and a finished document holds every image file of the folder.
C12_TileOrderIsFilenameOrder ==
  LET p == proc[1]
      tiles == p.doc.tiles
      placed == {tiles[k].file : k \in 1..Len(tiles)}
  IN p.pc \in {"asmloop", "awaitFinish", "cleanup"} =>
       /\ \A j, k \in 1..Len(tiles) :
             j < k => Less(tiles[j].file, tiles[k].file)
       /\ placed \subseteq FinalImages
       /\ \A f \in placed, g \in FinalImages \ placed : Less(f, g)
       /\ Assembled(p) => placed = FinalImages

\* C12 witness: a finished document of at least three tiles whose files
\* the directory listing returned in descending order.
C12_Witness ==
  LET p == proc[1]
  IN /\ Assembled(p)
     /\ Len(p.doc.tiles) >= 3
     /\ Len(p.files) = Len(p.doc.tiles)
     /\ \A j, k \in 1..Len(p.files) : j < k => Less(p.files[k], p.files[j])

\* C13: the closed form, in exact arithmetic: f1(v) in tenths, f2(f1(v)) in
\* hundredths and f3(f2(f1(v))) in thousandths, each clamped to 0..255
Clamp(x, top) == IF x < 0 THEN 0 ELSE IF x > top THEN top ELSE x

F1(v) == Clamp(13 * (255 - v) - 500, 2550)
F2(v) == Clamp(12 * (2550 - F1(v)) - 3000, 25500)
F3(v) == Clamp(15 * (25500 - F2(v)) - 30000, 255000)

\* one step of the closed form on a stored sample x, in tenths
Step(k, x) ==
  CASE k = 1 -> Clamp(13 * (255 - x) - 500, 2550)
    [] k = 2 -> Clamp(12 * (255 - x) - 300, 2550)
    [] k = 3 -> Clamp(15 * (255 - x) - 300, 2550)

\* the stage chain has completed on the page of gray value v
ChainDone(p) == p.pc = "validate" /\ p.failedIn = "none"

\* C13 as stated: for every gray value v in 0..255 the value after the
\* stage 1 -> stage 2 -> stage 3 chain equals f3(f2(f1(v))), with
\* f_k(x) = clamp(g_k * (255 - x) + b_k) and clamping after every step.
C13_ChainEqualsClosedForm ==
  LET p == proc[1]
  IN ChainDone(p) =>
       \A n \in dirs[FINAL_FOLDER].files :
          1000 * dirs[FINAL_FOLDER].gray[n] = F3(p.pdf.gray)

\* the most the value after the chain is away from f3(f2(f1(v))), in
\* thousandths
ToneTolerance == 3 * 1000

\* C13: every stage writes, for a sample x it read, the 8-bit integer that
\* f_k(x) = clamp(g_k * (255 - x) + b_k) gives once its fraction is cut off
\* or rounded to the nearest integer, with (g, b) = (1.3, -50), (1.2, -30),
\* (1.5, -30) in that order, so clamping and the reduction to an integer
\* happen after every step; the value after the chain equals f3(f2(f1(v)))
\* when no step gives a fraction and is otherwise less than 3 away from it.
C13_ChainIsQuantisedClosedForm ==
  LET p == proc[1]
      v == p.pdf.gray
      Abs(x) == IF x < 0 THEN 0 - x ELSE x
  IN /\ \A k \in 1..3 :
          \A n \in dirs[StageIn[k]].files \cap dirs[StageOut[k]].files :
             LET x == dirs[StageIn[k]].gray[n]
                 y == dirs[StageOut[k]].gray[n]
             IN /\ y \in 0..255
                /\ 10 * y <= Step(k, x) + 5
                /\ Step(k, x) < 10 * y + 10
     /\ ChainDone(p) =>
          \A n \in dirs[FINAL_FOLDER].files :
             LET y == dirs[FINAL_FOLDER].gray[n]
             IN /\ Abs(1000 * y - F3(v)) < ToneTolerance
                /\ (F1(v) % 10 = 0 /\ F2(v) % 100 = 0 /\ F3(v) % 1000 = 0)
                     => 1000 * y = F3(v)

\* C13 witness: the chain has completed on a gray value for which every
\* step gives a fraction strictly inside 0..255, and the stored value is
\* not the closed form's.
C13_Witness ==
  LET p == proc[1]
      v == p.pdf.gray
  IN /\ ChainDone(p)
     /\ F1(v) % 10 # 0 /\ F1(v) \in 1..2549
     /\ F2(v) % 10 # 0 /\ F2(v) \in 1..25499
     /\ F3(v) \in 1..254999
     /\ \E n \in dirs[FINAL_FOLDER].files :
          1000 * dirs[FINAL_FOLDER].gray[n] # F3(v)

\* the image files among a set of file names, by the allow-list
Images(S) ==
  {f \in S : \E e \in IMAGE_EXTENSIONS :
                /\ Len(f) > Len(e)
                /\ toLowerCase(SubSeq(f, Len(f) - Len(e) + 1, Len(f))) = e}

\* the phase a handler position belongs to: 1 Rasterizing, 2 Stage1,
\* 3 Stage2, 4 Stage3, 5 Assembling, 6 CleaningUp, 7 returned; 0 before the
\* pipeline is called, 8 after it threw
PhaseOf(pc) ==
  CASE pc = "idle" -> 0
    [] pc \in {"convert", "load"} -> 1
    [] pc \in {"stage1", "stage1loop"} -> 2
    [] pc \in {"stage2", "stage2loop"} -> 3
    [] pc \in {"final", "finalloop"} -> 4
    [] pc \in {"validate", "assemble", "asmloop", "awaitFinish"} -> 5
    [] pc = "cleanup" -> 6
    [] pc \in {"resolved", "streaming"} -> 7
    [] pc \in {"catch", "rejected"} -> 8
    [] pc = "done" -> 9

\* where stage k + 1 (the assembler for k = 3) reads what stage k wrote
ReadsOutputOf(k) ==
  CASE k = 1 -> {"stage2", "stage2loop"}
    [] k = 2 -> {"final", "finalloop"}
    [] k = 3 -> {"validate", "assemble", "asmloop"}

\* every phase is complete when the next one reads
PhaseBarrier ==
  \A r \in Runs :
     LET p == proc[r]
     IN /\ p.pc \in {"stage1", "stage1loop"} =>
             Pages(p.pdf) \subseteq dirs[TEMP_UPLOAD_FOLDER].files
        /\ \A k \in 1..3 :
              p.pc \in ReadsOutputOf(k) =>
                 Images(dirs[StageIn[k]].files) \subseteq dirs[StageOut[k]].files
        /\ p.pc = "cleanup" =>
             /\ p.found >= 0
             /\ Len(p.doc.tiles) = p.found

\* a step of a run stays in its phase, enters the next one, or leaves the
\* pipeline by a throw
PhaseOrder ==
  \A r \in Runs :
     LET a == PhaseOf(proc[r].pc)
         b == PhaseOf(proc'[r].pc)
     IN \/ b = a
        \/ a \in 0..6 /\ b = a + 1
        \/ a \in 1..6 /\ b = 8
        \/ a \in 7..8 /\ b = 9

FailedIsTerminal ==
  \A r \in Runs :
     LET p == proc[r]
     IN p.failedIn # "none" =>
          /\ p.pc \in {"catch", "rejected", "done"}
          /\ p.response \in {"none", "500"}

\* after the throw the run writes nothing: no staging folder gains a file,
\* the document at the output location is left as it is or removed (when
\* the clean-up, the last phase, is the one that failed, a document already
\* ended may still reach the disk, as may that of the run before), and
\* the phase the run failed in stays the one it failed in
FailedRunsNoPhase ==
  \A r \in Runs :
     (proc[r].failedIn # "none" /\ Latest(r)) =>
        /\ \A f \in Folders : dirs'[f].files \subseteq dirs[f].files
        /\ \/ out' = out
           \/ out' = NoFile
           \/ out'.run # r
           \/ proc[r].failedIn = "cleanup"
        /\ Latest(r)' => proc'[r].failedIn = proc[r].failedIn

\* C15: once a phase of a run has failed no later phase of that run
\* executes: no transform stage and no assembly runs, nothing more is
\* written, and the run ends failed (answered with an error), never done.
C15_TerminalOnFirstFailure == []FailedIsTerminal /\ [][FailedRunsNoPhase]_vars

\* C15 witness: a run that failed in stage 1 has been answered with an
\* error, and the folders of the later stages hold none of its pages.
C15_Witness ==
  \E r \in Runs :
     LET p == proc[r]
     IN /\ p.failedIn = "stage1" /\ p.pc = "done" /\ p.response = "500"
        /\ Latest(r)
        /\ p.pdf.numPages > 0
        /\ dirs[STAGE_2_FOLDER].files \cap Pages(p.pdf) = {}
        /\ dirs[FINAL_FOLDER].files \cap Pages(p.pdf) = {}
        /\ ~out.exists

\* a phase of run r has ensured and cleared its output folder and is about
\* to write its first file into it
BeginsWriting(r, folder) ==
  \/ /\ folder = TEMP_UPLOAD_FOLDER
     /\ proc[r].pc = "convert" /\ proc'[r].pc = "load"
  \/ \E k \in 1..3 :
        /\ folder = StageOut[k]
        /\ proc[r].pc = StagePc[k] /\ proc'[r].pc = StageLoopPc[k]

\* C16: when a phase (the rasterizer, a transform stage) begins writing,
\* after its ensure and clear, its output folder exists and holds no file,
\* whatever an earlier run left there.
C16_PhaseStartsFromEmptyFolder ==
  [][\A r \in Runs, folder \in Folders :
       BeginsWriting(r, folder) =>
          /\ dirs'[folder].exists
          /\ dirs'[folder].files = {}]_vars

\* stage k of run r completes successfully in this step
StageCompletes(r, k) ==
  /\ proc[r].pc \in {StagePc[k], StageLoopPc[k]}
  /\ proc'[r].pc = StageNextPc[k]

\* C17: when a transform stage completes successfully its destination
\* folder exists and the file names in it are exactly the names of the
\* source folder whose extension is png, jpg, jpeg or webp in any case; with
\* no such name the destination is created and empty.
C17_DestinationIsQualifyingSources ==
  [][\A r \in Runs, k \in 1..3 :
       StageCompletes(r, k) =>
          /\ dirs'[StageOut[k]].exists
          /\ dirs'[StageOut[k]].files = Images(dirs[StageIn[k]].files)]_vars

\* what a run in the loop of stage k does with the next file of its list:
\* it writes the file's output and goes on to the one after it, or it
\* throws, writes nothing, leaves the rest of the list alone and is in the
\* catch block or back in the handler with the stage as the failed phase
NoPerFileSkip ==
  \A r \in Runs, k \in 1..3 :
     (proc[r].pc = StageLoopPc[k] /\ proc[r].files # <<>>) =>
        \/ proc'[r] = proc[r]
        \/ /\ proc'[r].files = Tail(proc[r].files)
           /\ proc'[r].pc = proc[r].pc
           /\ proc'[r].failedIn = "none"
           /\ Head(proc[r].files) \in dirs'[StageOut[k]].files
        \/ /\ proc'[r].failedIn = StagePc[k]
           /\ proc'[r].pc \in {"catch", "rejected"}
           /\ proc'[r].files = proc[r].files
           /\ dirs' = dirs

\* a failed stage writes no further file and its run is not answered with
\* a document
FailedStageStops ==
  \A r \in Runs, k \in 1..3 :
     (proc[r].failedIn = StagePc[k] /\ Latest(r)) =>
        /\ dirs'[StageOut[k]].files \subseteq dirs[StageOut[k]].files
        /\ proc'[r].response # "pdf"

\* C18: a transform stage skips no file: when the read, transform or write
\* of one file fails the stage stops at that file, processes no file after
\* it, and the failure reaches the orchestrator as the failure of the stage.
C18_NoPerFileSkip == [][NoPerFileSkip /\ FailedStageStops]_vars

\* C18 witness: stage 1 failed at the second of two page images: the first
\* has its output, the second has none and is still first in the list, and
\* the run was answered with an error.
C18_Witness ==
  \E r \in Runs :
     LET p == proc[r]
     IN /\ p.failedIn = "stage1" /\ p.cause = <<"sharp">>
        /\ p.pc = "done" /\ p.response = "500"
        /\ p.pdf.numPages = 2
        /\ Len(p.files) = 1
        /\ Cardinality(Pages(p.pdf) \cap dirs[TEMP_UPLOAD_FOLDER].files) = 2
        /\ Cardinality(Pages(p.pdf) \cap dirs[STAGE_1_FOLDER].files) = 1
        /\ Head(p.files) \notin dirs[STAGE_1_FOLDER].files

\* C19: whenever stage 3 has completed successfully it has deleted the
\* stage-2 folder, its source, whatever the number of qualifying files, so
\* the stage-2 folder does not exist when assembly begins.
C19_StageTwoGoneBeforeAssembly ==
  \A r \in Runs :
     (proc[r].pc \in {"validate", "assemble"} /\ proc[r].failedIn = "none") =>
        ~dirs[STAGE_2_FOLDER].exists

\* C20 as stated: a failing fit draw is never fatal, so no run fails in the
\* assembler because an image could not be drawn.
C20_DrawFailureNeverFatal ==
  \A r \in Runs :
     ~(proc[r].failedIn = "assemble" /\ proc[r].cause = <<"image">>)

\* C20: when the fit draw of an image fails the image is drawn stretched to
\* exactly the tile's width and height at the unpadded tile origin; the
\* border and the sequence label of that tile are drawn as for any tile,
\* the cursor advances as for any tile, the remaining images are placed and
\* the document is ended.  When the stretch draw fails as well, the
\* assembler fails at that image and places no further tile.
C20_FallbackIsLocal ==
  LET p == proc[1]
      tiles == p.doc.tiles
  IN /\ \A k \in 1..Len(tiles) :
          LET t == tiles[k]
              i == k - 1
          IN /\ t.draw \in {"fit", "stretch"}
             /\ t.draw = "stretch" =>
                  t.image = [x |-> t.rect.x, y |-> t.rect.y,
                             w |-> imageWidth, h |-> imageHeight]
             /\ t.rect = [x |-> (i % p.columns) * imageWidth,
                          y |-> ((i \div p.columns) % p.rows) * imageHeight,
                          w |-> imageWidth, h |-> imageHeight]
             /\ t.label = toString(k)
             /\ t.labelAt = [x |-> t.rect.x + imageWidth - 15 * p.columns,
                             y |-> t.rect.y + imageHeight - 150 * p.rows]
     /\ Assembled(p) => Len(tiles) = p.found
     /\ p.failedIn = "assemble" /\ p.cause = <<"image">> =>
          /\ p.pc \in {"catch", "rejected"}
          /\ Len(tiles) = p.imageCount
          /\ p.imageCount < p.found

\* C20 witness: a finished document in which a tile drawn stretched is
\* followed, in the next grid cell, by a tile drawn to fit.
C20_Witness ==
  LET p == proc[1]
      tiles == p.doc.tiles
  IN /\ Assembled(p)
     /\ \E k \in 1..(Len(tiles) - 1) :
          /\ tiles[k].draw = "stretch"
          /\ tiles[k + 1].draw = "fit"
          /\ tiles[k + 1].page = tiles[k].page
          /\ tiles[k + 1].rect.x = tiles[k].rect.x + imageWidth

\* C21: clearing a folder never raises: a run never fails with the error of
\* an entry that could not be deleted, and the folder being cleared is kept.
C21_ClearNeverRaises ==
  \A r \in Runs :
     /\ proc[r].cause # <<"unlink">>
     /\ proc[r].pc = "load" => dirs[TEMP_UPLOAD_FOLDER].exists
     /\ \A k \in 1..3 : proc[r].pc = StageLoopPc[k] => dirs[StageOut[k]].exists

\* C22 as stated: while a run is in progress no page image of the run has
\* its name in two staging folders at once.
C22_OneFolderPerName ==
  \A r \in Runs :
     proc[r].pc \notin {"idle", "done"} =>
       \A n \in Pages(proc[r].pdf) :
          Cardinality({f \in Folders : n \in dirs[f].files}) <= 1

\* a step in which stage k of run r has written the image it read
StageWrites(r, k) ==
  /\ proc[r].pc = StageLoopPc[k]
  /\ proc[r].files # <<>>
  /\ proc'[r].pc = StageLoopPc[k]
  /\ proc'[r].files = Tail(proc[r].files)

\* the folders a transform stage has read or written for a finished run of
\* the three stages: stage 2's folder is gone again in part_000
HeldAfterStages ==
  IF impl = "app.js"
  THEN {TEMP_UPLOAD_FOLDER, STAGE_1_FOLDER, STAGE_2_FOLDER, FINAL_FOLDER}
  ELSE {TEMP_UPLOAD_FOLDER, STAGE_1_FOLDER, FINAL_FOLDER}

\* C22: a stage copies: the image it writes has the name of the image it
\* read, the image read stays in the source folder and no file of any
\* folder is deleted by the write, so the name is in the source and in the
\* destination folder at once.
StageCopies ==
  \A r \in Runs : \A k \in 1..3 :
     StageWrites(r, k) =>
       LET file == Head(proc[r].files)
       IN /\ file \in dirs'[StageIn[k]].files
          /\ file \in dirs'[StageOut[k]].files
          /\ Cardinality({f \in Folders : file \in dirs'[f].files}) >= 2
          /\ \A f \in Folders : dirs[f].files \subseteq dirs'[f].files

\* C22: once the three stages are through, every page image of the run has
\* its name in each folder the stages went through.
NamesHeldAfterStages ==
  \A r \in Runs :
     proc[r].pc = "validate" =>
       \A n \in Pages(proc[r].pdf) : \A f \in HeldAfterStages :
          n \in dirs[f].files

C22_StagesCopy == []NamesHeldAfterStages /\ [][StageCopies]_vars

\* C22 witness: the first run is in stage 2 with a page image it has
\* already transformed there: the name is in three folders.
C22_Witness ==
  /\ proc[1].pc = "stage2loop"
  /\ \E n \in Pages(proc[1].pdf) :
       /\ \A i \in 1..Len(proc[1].files) : proc[1].files[i] # n
       /\ n \in dirs[TEMP_UPLOAD_FOLDER].files
       /\ n \in dirs[STAGE_1_FOLDER].files
       /\ n \in dirs[STAGE_2_FOLDER].files

\* the elements of a sequence
Elements(s) == {s[i] : i \in 1..Len(s)}

\* where run r expects the page images of its own document to be: what it
\* has produced and not yet consumed is in the folder the next read goes
\* to, what a stage has already transformed is in the stage's destination
Held(r) ==
  LET p == proc[r]
      own == Pages(p.pdf)
  IN IF \E k \in 1..3 : p.pc = StagePc[k]
     THEN LET k == CHOOSE i \in 1..3 : p.pc = StagePc[i]
          IN {<<StageIn[k], n>> : n \in own}
     ELSE IF \E k \in 1..3 : p.pc = StageLoopPc[k]
     THEN LET k == CHOOSE i \in 1..3 : p.pc = StageLoopPc[i]
          IN {<<StageIn[k], n>> : n \in own \cap Elements(p.files)}
               \cup {<<StageOut[k], n>> : n \in own \ Elements(p.files)}
     ELSE IF p.pc \in {"validate", "assemble"}
     THEN {<<FINAL_FOLDER, n>> : n \in own}
     ELSE IF p.pc = "asmloop"
     THEN {<<FINAL_FOLDER, p.imageFiles[i]>> :
             i \in {j \in (p.imageCount + 1)..Len(p.imageFiles) :
                       p.imageFiles[j] \in own}}
     ELSE {}

\* a page image run r expects is not there
Lost(r) == \E h \in Held(r) : h[2] \notin dirs[h[1]].files

\* the positions at which the next step of a run clears or removes a
\* staging folder: the start of the rasterizer and of each stage, the end
\* of part_000's stage 3, the final cleanup and the compensating cleanup
ClearingPcs ==
  {"convert", "cleanup", "catch"} \cup {StagePc[k] : k \in 1..3}
    \cup (IF impl = "part_000" THEN {StageLoopPc[3]} ELSE {})

\* a run loses page images only by a step of another run that clears or
\* removes a folder
LostOnlyByAnotherRun ==
  \A r \in Runs :
     (~Lost(r) /\ Lost(r)') =>
        /\ proc'[r] = proc[r]
        /\ \E q \in Runs \ {r} :
             /\ proc'[q] # proc[q]
             /\ proc[q].pc \in ClearingPcs

\* a stage whose next input is gone fails at it
LostInputFails ==
  \A r \in Runs : \A k \in 1..3 :
     ( /\ proc[r].pc = StageLoopPc[k]
       /\ proc[r].files # <<>>
       /\ Head(proc[r].files) \notin dirs[StageIn[k]].files
       /\ proc'[r] # proc[r] ) =>
         /\ proc'[r].failedIn = StagePc[k]
         /\ proc'[r].pc \in {"catch", "rejected"}

\* C23: requests overlap on the same folders with no lock and no owner: a
\* request is accepted while another is in flight, the page images a run
\* has produced and not yet consumed disappear only through another run's
\* clear, removal or cleanup of the folder, and a stage that comes to read
\* an image lost in this way fails.
C23_SharedFoldersInterfere == [][LostOnlyByAnotherRun /\ LostInputFails]_vars

\* C23 witness: the first run has been answered with the document it
\* wrote, which has fewer tiles than the run rasterized pages, and the
\* second run, started while the first was in flight, is still in flight.
C23_Witness ==
  /\ proc[1].pc = "done"
  /\ proc[1].response = "pdf"
  /\ proc[1].sent.exists /\ proc[1].sent.run = 1 /\ proc[1].sent.complete
  /\ Len(proc[1].sent.doc.tiles) < proc[1].pdf.numPages
  /\ proc[2].pc \notin {"idle", "done"}

\* the files of the tiles of a document, in document order
TileFiles(doc) == [k \in 1..Len(doc.tiles) |-> doc.tiles[k].file]

\* C24: with requests one at a time, the tiles of the document a run
\* assembled and was answered with are the page images rasterized in that
\* run, one tile each: none is missing, none is of an earlier run or of
\* what was left in the folders.
C24_TilesAreThisRunsPages ==
  \A r \in Runs :
     (proc[r].response = "pdf" /\ proc[r].sent.exists) =>
        TileFiles(proc[r].doc) = Ascending(Pages(proc[r].pdf))

\* C25: the assembler returns only when the output file is completely
\* written: a run whose document was ended and is not yet flushed is still
\* waiting in the assembler (it is not at the cleanup nor past it), and the
\* file the handler starts to read for the answer is complete.
C25_CompleteBeforeCleanupAndRead ==
  \A r \in Runs :
     /\ proc[r].stream = "ended" => proc[r].pc = "awaitFinish"
     /\ proc[r].sent.exists => proc[r].sent.complete

====
